---- MODULE Spec2Model ----
(***************************************************************************)
(* State machine of png_to_vector.py: the Tk interface handlers             *)
(* (on_button_click, select_file, stop_conversion), the worker thread       *)
(* convert_image and the conversion png_to_vector_parallel it runs          *)
(* (preprocessing, band partition, thread-pool binarisation, merge, the     *)
(* per-pixel emission loop with its cancellation check and progress         *)
(* callback, save).                                                         *)
(*                                                                          *)
(* Matrices are sequences of rows, rows are sequences of pixel values;      *)
(* row y / column x of the code (0-based) is element [y+1][x+1].            *)
(***************************************************************************)
EXTENDS Integers, Sequences, FiniteSets, TLC

VARIABLES
    button,        \* state of the "Select File" button: "normal" | "disabled"
    stop_button,   \* state of the "Stop" button: "normal" | "disabled"
    packed,        \* progress bar and stop button are packed (visible)
    label,         \* text of the label
    progress_bar,  \* progress_bar['value'] as a fraction <<numerator, denominator>>
    pending,       \* select_file calls scheduled by root.after and not yet run
    stop_event,    \* the global threading.Event
    njobs,         \* convert_image threads started so far
    jobs,          \* per thread: the locals of convert_image / png_to_vector_parallel
    probe          \* input/output of one direct call of a pure function

vars == <<button, stop_button, packed, label, progress_bar, pending,
          stop_event, njobs, jobs, probe>>

ui_vars == <<button, stop_button, packed, label, progress_bar, pending,
             stop_event, njobs>>

----------------------------------------------------------------------------
(* Program constants *)

max_width == 1000

NumChunks == 4

ProgressTicks == 100

CannyHigh == 200

DefaultThreshold == 128

----------------------------------------------------------------------------
(* Bounds of the model *)

\* Heights 1..MaxHeight of the images of a single run (SpecRun).
MaxHeight == 6

\* Heights 0..MaxProbeHeight handed to the partition directly (SpecPure).
MaxProbeHeight == 40

\* Heights 1..MaxResizeHeight of the images handed to the downscale directly
\* (SpecPure).
MaxResizeHeight == 12

\* Worker threads the interface may start in one behaviour.
JobIds == {1, 2}

\* Image contents: an all-white page, and a black staircase on white.
Patterns == {"white", "diag"}

Min(a, b) == IF a < b THEN a ELSE b

Abs(a) == IF a < 0 THEN -a ELSE a

----------------------------------------------------------------------------
(* Images: the grey-level array np.array(Image.open(path).convert("L")) *)

\* Grey level of pixel (x, y) of an opened image.
Pixel(img, y, x) ==
    IF img.pat = "white" THEN 255
    ELSE IF x <= y THEN 0 ELSE 255

\* Size after the optional downscale to max_width (lines 37-40):
\* new_height = int(float(height) * (max_width / float(width))), the
\* truncation of the product, taken here as the exact quotient.
ResizedSize(w, h) ==
    IF w > max_width
    THEN [width |-> max_width, height |-> (h * max_width) \div w]
    ELSE [width |-> w, height |-> h]

\* image.resize((max_width, new_height), ...) raises ValueError when the new
\* height is 0: the truncation of line 39 gives 0 for height * 1000 < width.
ResizeRaises(w, h) == w > max_width /\ (h * max_width) \div w = 0

\* data = np.array(image): rows of grey levels.
Data(img) ==
    LET sz == ResizedSize(img.width, img.height)
        src == [img EXCEPT !.width = sz.width, !.height = sz.height]
    IN  [r \in 1..sz.height |-> [c \in 1..sz.width |-> Pixel(src, r - 1, c - 1)]]

----------------------------------------------------------------------------
(* process_chunk *)

\* cv2.Canny(chunk, 100, 200): 255 where the gradient inside the chunk is a
\* strong edge (above the high bound), 0 elsewhere.  Only rows of the chunk
\* are seen.  The images of the model have two grey levels, so a gradient is
\* 0 or at least 255: none lies between the bounds 100 and 200, and the
\* hysteresis of the low bound never decides a pixel.
Canny(chunk) ==
    [r \in 1..Len(chunk) |->
        [c \in 1..Len(chunk[r]) |->
            LET p     == chunk[r][c]
                right == IF c < Len(chunk[r]) THEN chunk[r][c + 1] ELSE p
                below == IF r < Len(chunk) THEN chunk[r + 1][c] ELSE p
                g     == Abs(p - right) + Abs(p - below)
            IN  IF g > CannyHigh THEN 255 ELSE 0]]

\* np.where(edges > threshold, 255, 0)
Binarize(edges, threshold) ==
    [r \in 1..Len(edges) |->
        [c \in 1..Len(edges[r]) |->
            IF edges[r][c] > threshold THEN 255 ELSE 0]]

process_chunk(start, end, data, threshold) ==
    Binarize(Canny(SubSeq(data, start + 1, end)), threshold)

----------------------------------------------------------------------------
(* Partition into bands *)

\* chunk_size = height // 4
ChunkSize(height) == height \div NumChunks

\* range(0, height, chunk_size) raises ValueError when the step is 0.
ChunkRangesRaises(height) == ChunkSize(height) = 0

\* The bands without the clamp of the last one to the height.
ChunkRangesUnclamped(height) ==
    LET cs == ChunkSize(height)
        n  == (height + cs - 1) \div cs
    IN  [i \in 1..n |-> <<(i - 1) * cs, (i - 1) * cs + cs>>]

\* [(start, min(start + chunk_size, height)) for start in range(0, height, chunk_size)]
ChunkRanges(height) ==
    LET cs == ChunkSize(height)
        n  == (height + cs - 1) \div cs
    IN  [i \in 1..n |-> <<(i - 1) * cs, Min((i - 1) * cs + cs, height)>>]

\* np.vstack of the results taken in the given order of band indices.
RECURSIVE VStackFrom(_, _, _)
VStackFrom(results, order, i) ==
    IF i > Len(order) THEN <<>>
    ELSE results[order[i]] \o VStackFrom(results, order, i + 1)

\* A gather in completion order: the band that finished last comes last.
MergeOrderCompleted(n, last) ==
    [i \in 1..n |-> IF i = n THEN last ELSE IF i < last THEN i ELSE i + 1]

\* list(executor.map(...)) yields the results in the order of chunk_ranges,
\* whichever task finished last.
MergeOrder(n, last) == [i \in 1..n |-> i]

----------------------------------------------------------------------------
(* The worker thread: convert_image running png_to_vector_parallel *)

\* A thread that has not been started.
IdleJob ==
    [pc |-> "idle", image |-> [width |-> 0, height |-> 0, pat |-> "white"],
     height |-> 0, width |-> 0, total_pixels |-> 0, pixel_count |-> 0,
     chunk_ranges |-> <<>>, results |-> <<>>, last |-> 0,
     binary_data |-> <<>>, y |-> 0, x |-> 0, shapes |-> <<>>,
     events |-> <<>>, saved |-> FALSE, document |-> <<>>, exit |-> "none",
     dialog |-> "none", error |-> "none", set_at |-> -1, requested |-> FALSE,
     failed |-> {}, set_in_pool |-> FALSE]

\* threading.Thread(target=convert_image, args=(input_path, output_file)).start()
StartedJob(img) == [IdleJob EXCEPT !.pc = "open", !.image = img]

Running(j) == jobs[j].pc \notin {"idle", "done"}

\* The thread ends: the locals of png_to_vector_parallel, the drawing among
\* them, are gone.  What outlives the thread is the file written by
\* dwg.save(), if it was reached, and what convert_image showed.
Ended(job) ==
    [IdleJob EXCEPT !.pc = "done", !.image = job.image, !.saved = job.saved,
                    !.document = job.document, !.exit = job.exit,
                    !.dialog = job.dialog, !.error = job.error]

\* An exception leaves png_to_vector_parallel: the except clause of
\* convert_image shows the error dialog, then the finally clause runs.
Raise(job, err) ==
    [job EXCEPT !.pc = "finally", !.exit = "raised", !.error = err,
                !.dialog = "error"]

\* Lines 33-57: open, convert, resize, np.array, Drawing, partition.
JobOpen(j) ==
    /\ jobs[j].pc = "open"
    /\ LET job == jobs[j]
           sz  == ResizedSize(job.image.width, job.image.height)
           opened == [job EXCEPT !.height = sz.height, !.width = sz.width,
                                 !.total_pixels = sz.height * sz.width,
                                 !.pixel_count = 0]
       IN  jobs' = [jobs EXCEPT ![j] =
               IF ChunkRangesRaises(sz.height)
               THEN Raise(opened, "ValueError")
               ELSE [opened EXCEPT !.pc = "pool",
                                   !.chunk_ranges = ChunkRanges(sz.height),
                                   !.results = [i \in 1..Len(ChunkRanges(sz.height)) |-> <<>>]]]
    /\ UNCHANGED <<ui_vars, probe>>

\* One task of executor.map finishes: process_chunk(r[0], r[1], data, threshold).
\* The tasks run on pool threads and finish in any order; last is the band
\* of the task that finished most recently.
ChunkDone(j, b) ==
    /\ jobs[j].pc = "pool"
    /\ b \in 1..Len(jobs[j].chunk_ranges)
    /\ jobs[j].results[b] = <<>>
    /\ b \notin jobs[j].failed
    /\ LET job == jobs[j]
           r   == job.chunk_ranges[b]
       IN  jobs' = [jobs EXCEPT ![j] =
               [job EXCEPT !.results[b] =
                               process_chunk(r[1], r[2], Data(job.image), DefaultThreshold),
                           !.last = b]]
    /\ UNCHANGED <<ui_vars, probe>>

\* One task of executor.map raises inside process_chunk (cv2.error from
\* cv2.Canny, MemoryError from np.where): the future holds the exception and
\* no result.  A task is submitted once and never again.
ChunkRaise(j, b) ==
    /\ jobs[j].pc = "pool"
    /\ b \in 1..Len(jobs[j].chunk_ranges)
    /\ jobs[j].results[b] = <<>>
    /\ b \notin jobs[j].failed
    /\ jobs' = [jobs EXCEPT ![j] =
           [jobs[j] EXCEPT !.failed = @ \cup {b}, !.last = b]]
    /\ UNCHANGED <<ui_vars, probe>>

\* The bands no task has finished or raised for.
Pending(job) ==
    {b \in 1..Len(job.chunk_ranges) : job.results[b] = <<>> /\ b \notin job.failed}

\* The first band, in the order of chunk_ranges, whose task raised.
FirstFailed(job) ==
    CHOOSE b \in job.failed : \A c \in job.failed : b <= c

\* A gather that swallows the exception: the bands that raised are dropped,
\* the rest stacked, and the run carries on to dwg.save().
PoolRaiseSwallow(j) ==
    /\ jobs[j].pc = "pool"
    /\ jobs[j].failed # {}
    /\ Pending(jobs[j]) = {}
    /\ LET job  == jobs[j]
           kept == {b \in 1..Len(job.chunk_ranges) : b \notin job.failed}
           RECURSIVE Asc(_)
           Asc(S) == IF S = {} THEN <<>>
                     ELSE LET m == CHOOSE b \in S : \A c \in S : b <= c
                          IN  <<m>> \o Asc(S \ {m})
       IN  jobs' = [jobs EXCEPT ![j] =
               [job EXCEPT !.binary_data = VStackFrom(job.results, Asc(kept), 1),
                           !.y = 0, !.x = 0, !.pc = "save"]]
    /\ UNCHANGED <<ui_vars, probe>>

\* Line 58 with a task that raised: list(...) takes the results in the
\* order of chunk_ranges and re-raises the exception of the first band that
\* failed once the bands before it are done; the iterator cancels the tasks
\* not yet started and the with block waits for those that run, whose
\* results are dropped.  np.vstack (line 61) is not reached.
PoolRaise(j) ==
    /\ jobs[j].pc = "pool"
    /\ jobs[j].failed # {}
    /\ \A b \in 1..(FirstFailed(jobs[j]) - 1) : jobs[j].results[b] # <<>>
    /\ jobs' = [jobs EXCEPT ![j] = Raise(jobs[j], "cv2.error")]
    /\ UNCHANGED <<ui_vars, probe>>

\* A join that gives up the tasks still running once stop_event is set.
MergeAbandoning(j) ==
    /\ jobs[j].pc = "pool"
    /\ jobs[j].failed = {}
    /\ stop_event \/ \A b \in 1..Len(jobs[j].chunk_ranges) : jobs[j].results[b] # <<>>
    /\ LET job == jobs[j]
           n   == Len(job.chunk_ranges)
       IN  jobs' = [jobs EXCEPT ![j] =
               [job EXCEPT !.binary_data =
                               VStackFrom(job.results, MergeOrder(n, job.last), 1),
                           !.y = 0, !.x = 0, !.pc = "check"]]
    /\ UNCHANGED <<ui_vars, probe>>

\* The with block joins every task; binary_data = np.vstack(results).
Merge(j) ==
    /\ jobs[j].pc = "pool"
    /\ \A b \in 1..Len(jobs[j].chunk_ranges) : jobs[j].results[b] # <<>>
    /\ LET job == jobs[j]
           n   == Len(job.chunk_ranges)
       IN  jobs' = [jobs EXCEPT ![j] =
               [job EXCEPT !.binary_data =
                               VStackFrom(job.results, MergeOrder(n, job.last), 1),
                           !.y = 0, !.x = 0, !.pc = "check"]]
    /\ UNCHANGED <<ui_vars, probe>>

\* dwg.save(): the file holds the shapes added to the drawing so far.
Saved(job) == [job EXCEPT !.saved = TRUE, !.document = job.shapes]

\* A return at line 68 that first saved the drawing.
StopReturnSaving(job) ==
    [Saved(job) EXCEPT !.pc = "report", !.exit = "stopped"]

\* Lines 66-68: print and return; dwg.save() is not reached.
StopReturn(job) == [job EXCEPT !.pc = "report", !.exit = "stopped"]

\* Line 66: the check of stop_event at the head of one pixel's iteration.
EmitCheck(j) ==
    /\ jobs[j].pc = "check"
    /\ jobs' = [jobs EXCEPT ![j] =
           IF stop_event THEN StopReturn(jobs[j])
           ELSE [jobs[j] EXCEPT !.pc = "body"]]
    /\ UNCHANGED <<ui_vars, probe>>

\* total_pixels // 100
ProgressStep(total_pixels) == total_pixels \div ProgressTicks

\* A callback every tenth of the image instead of every hundredth.
ProgressDueCoarse(pixel_count, total_pixels) ==
    pixel_count % (total_pixels \div 10) = 0

\* pixel_count % (total_pixels // 100) == 0 (the divisor is not 0 here)
ProgressDue(pixel_count, total_pixels) ==
    pixel_count % ProgressStep(total_pixels) = 0

\* pixel_count / total_pixels, kept as the exact fraction <<n, d>>.
ProgressFraction(pixel_count, total_pixels) == <<pixel_count, total_pixels>>

\* Nested loops the other way round: columns outside, rows inside.
NextPixelColumnMajor(job) ==
    IF job.y + 1 < job.height
    THEN [job EXCEPT !.y = job.y + 1, !.pc = "check"]
    ELSE IF job.x + 1 < job.width
         THEN [job EXCEPT !.y = 0, !.x = job.x + 1, !.pc = "check"]
         ELSE [job EXCEPT !.pc = "save"]

\* The position after (y, x) in the nested loops over range(height), range(width).
NextPixel(job) ==
    IF job.x + 1 < job.width
    THEN [job EXCEPT !.x = job.x + 1, !.pc = "check"]
    ELSE IF job.y + 1 < job.height
         THEN [job EXCEPT !.x = 0, !.y = job.y + 1, !.pc = "check"]
         ELSE [job EXCEPT !.pc = "save"]

\* Lines 69-74: the rest of one pixel's iteration.
EmitBody(j) ==
    /\ jobs[j].pc = "body"
    /\ LET job == jobs[j]
           drawn == [job EXCEPT
                        !.shapes = IF job.binary_data[job.y + 1][job.x + 1] = 0
                                   THEN Append(job.shapes, <<job.x, job.y>>)
                                   ELSE job.shapes,
                        !.pixel_count = job.pixel_count + 1]
       IN  IF ProgressStep(job.total_pixels) = 0
           THEN /\ jobs' = [jobs EXCEPT ![j] = Raise(drawn, "ZeroDivisionError")]
                /\ UNCHANGED progress_bar
           ELSE IF ProgressDue(drawn.pixel_count, job.total_pixels)
                THEN LET f == ProgressFraction(drawn.pixel_count, job.total_pixels)
                     IN  /\ jobs' = [jobs EXCEPT ![j] =
                                NextPixel([drawn EXCEPT !.events = Append(drawn.events, f)])]
                         \* update_progress: progress_bar['value'] = progress * 100
                         /\ progress_bar' = <<f[1] * 100, f[2]>>
                ELSE /\ jobs' = [jobs EXCEPT ![j] = NextPixel(drawn)]
                     /\ UNCHANGED progress_bar
    /\ UNCHANGED <<button, stop_button, packed, label, pending, stop_event, njobs, probe>>

\* Lines 76-78: dwg.save() after the loops.
Save(j) ==
    /\ jobs[j].pc = "save"
    /\ jobs' = [jobs EXCEPT ![j] =
           [Saved(jobs[j]) EXCEPT !.exit = "saved", !.pc = "report"]]
    /\ UNCHANGED <<ui_vars, probe>>

\* Lines 108-109: the success dialog unless stop_event is set.
Report(j) ==
    /\ jobs[j].pc = "report"
    /\ jobs' = [jobs EXCEPT ![j] =
           [jobs[j] EXCEPT !.dialog = IF stop_event THEN "none" ELSE "success",
                           !.pc = "finally"]]
    /\ UNCHANGED <<ui_vars, probe>>

\* Lines 112-119: the finally clause of convert_image.
Finally(j) ==
    /\ jobs[j].pc = "finally"
    /\ jobs' = [jobs EXCEPT ![j] = Ended(jobs[j])]
    /\ button' = "normal"
    /\ progress_bar' = <<0, 1>>
    /\ packed' = FALSE
    /\ UNCHANGED <<stop_button, label, pending, stop_event, njobs, probe>>

----------------------------------------------------------------------------
(* The interface thread *)

on_button_click ==
    /\ button = "normal"
    /\ label' = "Processing..."
    /\ button' = "disabled"
    /\ progress_bar' = <<0, 1>>
    /\ pending' = pending + 1
    /\ UNCHANGED <<stop_button, packed, stop_event, njobs, jobs, probe>>

\* select_file, the dialog dismissed: return at line 87.
SelectFileDismissed ==
    /\ pending > 0
    /\ pending' = pending - 1
    /\ UNCHANGED <<button, stop_button, packed, label, progress_bar, stop_event,
                   njobs, jobs, probe>>

\* select_file starting the thread without stop_event.clear().
SelectFileChosenNoClear(img) ==
    /\ pending > 0
    /\ njobs + 1 \in JobIds
    /\ pending' = pending - 1
    /\ packed' = TRUE
    /\ stop_button' = "normal"
    /\ njobs' = njobs + 1
    /\ jobs' = [jobs EXCEPT ![njobs + 1] = StartedJob(img)]
    /\ UNCHANGED <<button, label, progress_bar, stop_event, probe>>

\* select_file, a file chosen: lines 89-100.
SelectFileChosen(img) ==
    /\ pending > 0
    /\ njobs + 1 \in JobIds
    /\ pending' = pending - 1
    /\ packed' = TRUE
    /\ stop_button' = "normal"
    /\ stop_event' = FALSE
    /\ njobs' = njobs + 1
    \* (the history set_at is about a signal that stays set: cleared with it)
    /\ jobs' = [j \in JobIds |->
                  IF j = njobs + 1 THEN StartedJob(img)
                  ELSE [jobs[j] EXCEPT !.set_at = -1, !.set_in_pool = FALSE]]
    /\ UNCHANGED <<button, label, progress_bar, probe>>

\* History, no variable of the program: the pixels whose check had passed
\* when stop_event was set (-1: not set during the loop, or cleared since), for
\* a thread that is in the emission loop with a check still ahead of it
\* (not in the iteration of the last pixel).
SetAt(job) ==
    IF job.pc = "check" THEN job.pixel_count
    ELSE IF job.pc = "body" /\ ~(job.y + 1 = job.height /\ job.x + 1 = job.width)
         THEN job.pixel_count + 1
         ELSE job.set_at

\* Lines 122-124 as a function of what they assign to.
StopConversionOn(ui) ==
    [ui EXCEPT !.stop_event = TRUE, !.button = "normal", !.stop_button = "disabled"]

\* What stop_conversion reads and writes, in the current state.
StopConversionState ==
    [stop_event |-> stop_event, button |-> button, stop_button |-> stop_button]

\* The Stop button can be pressed while it is packed and enabled.  History
\* requested: a stop was requested while the thread was running;
\* set_in_pool: stop_event was set while the tasks of the thread's pool were
\* running or waiting to be joined, and has not been cleared since.
stop_conversion ==
    /\ packed
    /\ stop_button = "normal"
    /\ LET after == StopConversionOn(StopConversionState)
       IN  /\ stop_event' = after.stop_event
           /\ button' = after.button
           /\ stop_button' = after.stop_button
    /\ jobs' = [j \in JobIds |->
                  [jobs[j] EXCEPT !.set_at = SetAt(jobs[j]),
                                  !.requested = @ \/ Running(j),
                                  !.set_in_pool = @ \/ jobs[j].pc = "pool"]]
    /\ UNCHANGED <<packed, label, progress_bar, pending, njobs, probe>>

----------------------------------------------------------------------------
(* Specification of the whole program *)

\* The files the user picks in Spec for the first conversion ...
Images ==
    { [width |-> 25, height |-> 4, pat |-> "diag"],
      [width |-> 4,  height |-> 4, pat |-> "diag"],
      [width |-> 4,  height |-> 4, pat |-> "white"],
      [width |-> 4,  height |-> 2, pat |-> "white"] }

\* ... and for the next one: after a first image whose emission loop runs
\* for a hundred pixels or more only the smallest file, which keeps the
\* product of the two threads' positions small.
LaterImages ==
    IF jobs[1].image.width * jobs[1].image.height >= ProgressTicks
    THEN { [width |-> 4, height |-> 2, pat |-> "white"] }
    ELSE { [width |-> 4, height |-> 4, pat |-> "white"],
           [width |-> 4, height |-> 2, pat |-> "white"] }

Init ==
    /\ button = "normal"
    /\ stop_button = "disabled"
    /\ packed = FALSE
    /\ label = "Select an image file to convert:"
    /\ progress_bar = <<0, 1>>
    /\ pending = 0
    /\ stop_event = FALSE
    /\ njobs = 0
    /\ jobs = [j \in JobIds |-> IdleJob]
    /\ probe = [fn |-> "none"]

Worker(j) ==
    \/ JobOpen(j)
    \/ \E b \in 1..Len(jobs[j].chunk_ranges) : ChunkDone(j, b)
    \/ Merge(j)
    \/ EmitCheck(j)
    \/ EmitBody(j)
    \/ Save(j)
    \/ Report(j)
    \/ Finally(j)

Next ==
    \/ on_button_click
    \/ SelectFileDismissed
    \/ \E img \in (IF njobs = 0 THEN Images ELSE LaterImages) : SelectFileChosen(img)
    \/ stop_conversion
    \/ \E j \in JobIds : Worker(j)

Spec == Init /\ [][Next]_vars

----------------------------------------------------------------------------
(* Specification of one conversion: from the moment select_file has started
   the thread, with the Stop button as the only interface event *)

RunWidths == {3, 25, 41}

RunImages ==
    { [width |-> w, height |-> h, pat |-> p] :
        w \in RunWidths, h \in 1..MaxHeight, p \in Patterns }

\* The state on_button_click and select_file leave behind.
InitRun ==
    /\ button = "disabled"
    /\ stop_button = "normal"
    /\ packed = TRUE
    /\ label = "Processing..."
    /\ progress_bar = <<0, 1>>
    /\ pending = 0
    /\ stop_event = FALSE
    /\ njobs = 1
    /\ \E img \in RunImages :
          jobs = [j \in JobIds |-> IF j = 1 THEN StartedJob(img) ELSE IdleJob]
    /\ probe = [fn |-> "none"]

NextRun ==
    \/ stop_conversion
    \/ Worker(1)

SpecRun == InitRun /\ [][NextRun]_vars

----------------------------------------------------------------------------
(* Specification of one conversion of an image wider than max_width, or of
   one of the narrow images, with the Stop button as the only interface
   event *)

WideImages ==
    { [width |-> 1200, height |-> 5, pat |-> "diag"],
      [width |-> 25,   height |-> 6, pat |-> "diag"],
      [width |-> 41,   height |-> 5, pat |-> "white"] }

InitWide ==
    /\ button = "disabled"
    /\ stop_button = "normal"
    /\ packed = TRUE
    /\ label = "Processing..."
    /\ progress_bar = <<0, 1>>
    /\ pending = 0
    /\ stop_event = FALSE
    /\ njobs = 1
    /\ \E img \in WideImages :
          jobs = [j \in JobIds |-> IF j = 1 THEN StartedJob(img) ELSE IdleJob]
    /\ probe = [fn |-> "none"]

SpecWide == InitWide /\ [][NextRun]_vars

----------------------------------------------------------------------------
(* Specification of one conversion in which process_chunk may raise *)

FaultImages ==
    { [width |-> 25, height |-> h, pat |-> p] : h \in {4, 5}, p \in Patterns }

InitFault ==
    /\ button = "disabled"
    /\ stop_button = "normal"
    /\ packed = TRUE
    /\ label = "Processing..."
    /\ progress_bar = <<0, 1>>
    /\ pending = 0
    /\ stop_event = FALSE
    /\ njobs = 1
    /\ \E img \in FaultImages :
          jobs = [j \in JobIds |-> IF j = 1 THEN StartedJob(img) ELSE IdleJob]
    /\ probe = [fn |-> "none"]

NextFault ==
    \/ stop_conversion
    \/ Worker(1)
    \/ \E b \in 1..Len(jobs[1].chunk_ranges) : ChunkRaise(1, b)
    \/ PoolRaise(1)

SpecFault == InitFault /\ [][NextFault]_vars

----------------------------------------------------------------------------
(* Specification of direct calls: the partition expression of lines 50-57
   and process_chunk, each applied once to an input drawn by the initial
   state *)

\* Thresholds of [0, 255] handed to process_chunk.
Thresholds == {0, 1, 127, 128, 200, 254, 255}

\* Images whose rows are handed to process_chunk.
ProbeImages ==
    { [width |-> w, height |-> h, pat |-> p] :
        w \in 1..3, h \in 1..3, p \in Patterns }

\* Foreground pixels of a mask: the pixels png_to_vector_parallel draws.
RECURSIVE CountZeros(_, _)
CountZeros(mask, r) ==
    IF r > Len(mask) THEN 0
    ELSE Cardinality({c \in 1..Len(mask[r]) : mask[r][c] = 0}) + CountZeros(mask, r + 1)

\* Widths of the images handed to the downscale: below, at and above
\* max_width.  For these widths and the heights 1..MaxResizeHeight + 1 the
\* double product of line 39 truncates to the exact quotient.
ResizeWidths == {1, 3, 999, 1000, 1001, 1200, 1500, 2000, 3000, 4000}

InitPure ==
    /\ button = "normal"
    /\ stop_button = "disabled"
    /\ packed = FALSE
    /\ label = "Select an image file to convert:"
    /\ progress_bar = <<0, 1>>
    /\ pending = 0
    /\ stop_event = FALSE
    /\ njobs = 0
    /\ jobs = [j \in JobIds |-> IdleJob]
    /\ \/ \E h \in 0..MaxProbeHeight :
             probe = [fn |-> "chunk_ranges", height |-> h, called |-> FALSE,
                      raised |-> FALSE, out |-> <<>>]
       \/ \E img \in ProbeImages, t1 \in Thresholds, t2 \in Thresholds :
             /\ t1 <= t2
             /\ probe = [fn |-> "process_chunk", image |-> img, t1 |-> t1,
                         t2 |-> t2, called |-> FALSE, out1 |-> <<>>, out2 |-> <<>>]
       \/ \E w \in ResizeWidths, h \in 1..MaxResizeHeight :
             probe = [fn |-> "resize", width |-> w, height |-> h,
                      called |-> FALSE, raised |-> FALSE,
                      out |-> [width |-> 0, height |-> 0]]

\* chunk_size = height // 4 and the list comprehension of line 57.
CallChunkRanges ==
    /\ probe.fn = "chunk_ranges"
    /\ ~probe.called
    /\ probe' = IF ChunkRangesRaises(probe.height)
                THEN [probe EXCEPT !.called = TRUE, !.raised = TRUE]
                ELSE [probe EXCEPT !.called = TRUE, !.out = ChunkRanges(probe.height)]
    /\ UNCHANGED <<ui_vars, jobs>>

\* process_chunk on the whole of one array, with each of two thresholds.
CallProcessChunk ==
    /\ probe.fn = "process_chunk"
    /\ ~probe.called
    /\ LET data == Data(probe.image)
       IN  probe' = [probe EXCEPT
                        !.called = TRUE,
                        !.out1 = process_chunk(0, Len(data), data, probe.t1),
                        !.out2 = process_chunk(0, Len(data), data, probe.t2)]
    /\ UNCHANGED <<ui_vars, jobs>>

\* Lines 36-40 on an image of the given size.
CallResize ==
    /\ probe.fn = "resize"
    /\ ~probe.called
    /\ probe' = IF ResizeRaises(probe.width, probe.height)
                THEN [probe EXCEPT !.called = TRUE, !.raised = TRUE]
                ELSE [probe EXCEPT !.called = TRUE,
                                   !.out = ResizedSize(probe.width, probe.height)]
    /\ UNCHANGED <<ui_vars, jobs>>

NextPure ==
    \/ CallChunkRanges
    \/ CallProcessChunk
    \/ CallResize

SpecPure == InitPure /\ [][NextPure]_vars

----------------------------------------------------------------------------
(* Operators the properties are stated with *)

\* The shapes of the first k pixels in row-major order: <<x, y>> of every
\* pixel of the mask that is 0.
RowShapes(row, y, n) ==
    SelectSeq([c \in 1..n |-> <<c - 1, y>>], LAMBDA p : row[p[1] + 1] = 0)

RECURSIVE ShapesFrom(_, _, _, _)
ShapesFrom(mask, width, k, y) ==
    IF k <= y * width THEN <<>>
    ELSE RowShapes(mask[y + 1], y, Min(width, k - y * width))
             \o ShapesFrom(mask, width, k, y + 1)

ShapesOfFirst(mask, width, k) == ShapesFrom(mask, width, k, 0)

\* Half-open bands that tile [0, height) in ascending order.
Tiles(ranges, height) ==
    /\ Len(ranges) >= 1
    /\ ranges[1][1] = 0
    /\ ranges[Len(ranges)][2] = height
    /\ \A i \in 1..Len(ranges) : ranges[i][1] < ranges[i][2]
    /\ \A i \in 1..(Len(ranges) - 1) : ranges[i][2] = ranges[i + 1][1]

\* The thread has left png_to_vector_parallel and not yet ended.
Left(job) == job.pc \in {"report", "finally"}

\* The merged mask exists.
Merged(job) == job.pc \in {"check", "body", "save"} \/ (Left(job) /\ job.binary_data # <<>>)

----------------------------------------------------------------------------
(* C1 *)

\* C1, as stated: a run whose emission loop observed stop_event set has
\* saved its document, holding exactly the shapes appended so far.
C1_CancelledRunSaved ==
    \A j \in JobIds :
        (jobs[j].exit = "stopped" /\ Left(jobs[j])) =>
            (jobs[j].saved /\ jobs[j].document = jobs[j].shapes)

\* C1, as amended: a run whose emission loop observed stop_event set has
\* returned at line 68 without reaching dwg.save(): no document is written,
\* whatever shapes were appended to the drawing.
C1_CancelledRunNotSaved ==
    \A j \in JobIds :
        jobs[j].exit = "stopped" => (~jobs[j].saved /\ jobs[j].document = <<>>)

\* A cancelled run that had appended shapes.
C1_Witness ==
    \E j \in JobIds :
        /\ jobs[j].exit = "stopped"
        /\ Left(jobs[j])
        /\ Len(jobs[j].shapes) > 0

----------------------------------------------------------------------------
(* C2 *)

\* The progress callbacks due within the first k pixels.
TicksOfFirst(total_pixels, k) ==
    LET step == total_pixels \div ProgressTicks
    IN  IF step = 0 THEN <<>>
        ELSE [i \in 1..(k \div step) |-> <<i * step, total_pixels>>]

\* C2: if stop_event is set, and stays set, when the checks of n of the N
\* pixels have passed and a check is still ahead, then no more than
\* n + floor(N/100) pixels are ever visited, and the run ends by the return
\* of line 68 with the shapes and progress events of the pixels visited
\* until then and no success dialog: cancelled, not finished or failed.
C2_CancellationPrompt ==
    \A j \in JobIds :
        LET job == jobs[j]
        IN  (job.set_at >= 0 /\ stop_event) =>
                /\ job.pixel_count <= job.set_at + (job.total_pixels \div 100)
                /\ Left(job) =>
                       /\ job.exit = "stopped"
                       /\ job.dialog # "success"
                       /\ job.dialog # "error"
                       /\ job.shapes =
                              ShapesOfFirst(job.binary_data, job.width, job.pixel_count)
                       /\ job.events = TicksOfFirst(job.total_pixels, job.pixel_count)

----------------------------------------------------------------------------
(* C3 *)

\* C3: while a thread is running, stop_event, once set, stays set: no step
\* taken while some thread runs clears it.
C3_SetUntilJobEnds ==
    [][(stop_event /\ \E j \in JobIds : Running(j)) => stop_event']_vars

----------------------------------------------------------------------------
(* C4 *)

\* C4: for an image without edges (all white), threshold 128, the merged
\* mask is all background (no pixel is 0), no shape is appended, and the
\* run, unless cancelled, ends saved without an error.
C4_NoEdgesNoShapes ==
    \A j \in JobIds :
        LET job == jobs[j]
        IN  (job.image.pat = "white" /\ job.height >= NumChunks) =>
                /\ Merged(job) => CountZeros(job.binary_data, 1) = 0
                /\ job.shapes = <<>>
                /\ job.document = <<>>
                /\ (Left(job) /\ job.exit # "stopped") =>
                       (job.exit = "saved" /\ job.error = "none")

----------------------------------------------------------------------------
(* C5 *)

\* C5: for one array and thresholds t1 <= t2, process_chunk with t2 yields
\* no more pixels of value 0 than process_chunk with t1.
C5_ThresholdMonotone ==
    (probe.fn = "process_chunk" /\ probe.called) =>
        CountZeros(probe.out2, 1) <= CountZeros(probe.out1, 1)

----------------------------------------------------------------------------
(* C6 *)

\* C6: for every height h >= 4 the partition does not raise and
\* chunk_ranges are non-empty half-open bands in ascending order, each
\* starting where the one before ends, the first at 0 and the last ending
\* at h.
C6_BandsTile ==
    (probe.fn = "chunk_ranges" /\ probe.called /\ probe.height >= NumChunks) =>
        (~probe.raised /\ Tiles(probe.out, probe.height))

\* A height that is no multiple of the chunk size: the last band is clamped.
C6_Witness ==
    /\ probe.fn = "chunk_ranges"
    /\ probe.called
    /\ probe.height >= NumChunks
    /\ probe.height % ChunkSize(probe.height) # 0
    /\ Len(probe.out) > NumChunks

----------------------------------------------------------------------------
(* C7 *)

\* C7: for a height below 4 the partition does not raise: it yields bands
\* that tile [0, height) for heights 1..3 and no band for height 0.
C7_SmallHeightsPartition ==
    (probe.fn = "chunk_ranges" /\ probe.called /\ probe.height < NumChunks) =>
        /\ ~probe.raised
        /\ probe.height = 0 => probe.out = <<>>
        /\ probe.height > 0 => Tiles(probe.out, probe.height)

----------------------------------------------------------------------------
(* C8 *)

\* Fractions <<n, d>> compared exactly.
FracLeq(f, g) == f[1] * g[2] <= g[1] * f[2]

\* C8: the fractions passed to progress_callback in one run are in [0, 1]
\* and never decrease, and a run that reaches dwg.save() has delivered a
\* last fraction >= 0.99.
C8_ProgressMonotone ==
    \A j \in JobIds :
        LET ev == jobs[j].events
        IN  /\ \A i \in 1..Len(ev) :
                   /\ ev[i][2] > 0
                   /\ 0 <= ev[i][1]
                   /\ ev[i][1] <= ev[i][2]
            /\ \A i \in 1..(Len(ev) - 1) : FracLeq(ev[i], ev[i + 1])
            /\ (jobs[j].exit = "saved" /\ Left(jobs[j])) =>
                   /\ Len(ev) > 0
                   /\ FracLeq(<<99, 100>>, ev[Len(ev)])

\* A finished run whose last callback came before the last pixel.
C8_Witness ==
    \E j \in JobIds :
        /\ jobs[j].exit = "saved"
        /\ Left(jobs[j])
        /\ Len(jobs[j].events) > 1
        /\ jobs[j].events[Len(jobs[j].events)][1] < jobs[j].total_pixels

----------------------------------------------------------------------------
(* C9 *)

\* C9: a run over fewer than 100 pixels that is not cancelled does not
\* fail: it visits every pixel, delivers a progress event and saves.
C9_SmallImageFinishes ==
    \A j \in JobIds :
        LET job == jobs[j]
        IN  (/\ Left(job)
             /\ job.height >= NumChunks
             /\ job.total_pixels < 100
             /\ job.exit # "stopped") =>
                /\ job.exit = "saved"
                /\ job.error = "none"
                /\ job.pixel_count = job.total_pixels
                /\ Len(job.events) >= 1

----------------------------------------------------------------------------
(* C10 *)

\* The mask of each band, and from them row by row the mask of the image:
\* row y is taken from the band that holds row y.
BandMasks(job) ==
    LET data == Data(job.image)
    IN  [b \in 1..Len(job.chunk_ranges) |->
            process_chunk(job.chunk_ranges[b][1], job.chunk_ranges[b][2], data,
                          DefaultThreshold)]

MaskByRows(job) ==
    LET masks == BandMasks(job)
        cs    == ChunkSize(job.height)
    IN  [r \in 1..job.height |->
            LET b == ((r - 1) \div cs) + 1
            IN  masks[b][r - job.chunk_ranges[b][1]]]

\* C10: whichever order the band tasks finish in, the mask the merge hands
\* to the emission loop is the band masks from top to bottom (row y is the
\* row of its own band), and a finished run has that mask and a document
\* holding the shapes of that mask: both depend on the image alone.
C10_MergeInBandOrder ==
    \A j \in JobIds :
        LET job == jobs[j]
        IN  /\ (job.pc = "check" /\ job.pixel_count = 0) =>
                   job.binary_data = MaskByRows(job)
            /\ (job.exit = "saved" /\ Left(job)) =>
                   /\ job.binary_data = MaskByRows(job)
                   /\ job.document =
                          ShapesOfFirst(job.binary_data, job.width, job.total_pixels)

\* A finished run in which a band other than the bottom one finished last.
C10_Witness ==
    \E j \in JobIds :
        /\ jobs[j].exit = "saved"
        /\ Left(jobs[j])
        /\ jobs[j].image.pat = "diag"
        /\ jobs[j].last # Len(jobs[j].chunk_ranges)

----------------------------------------------------------------------------
(* C11 *)

\* C11: an image wider than 1000 is preprocessed, without an error, to width
\* exactly 1000 and the height nearest to height * 1000 / width (no integer
\* is nearer; a tie may go either way); an image of width <= 1000 keeps its
\* width and height.
C11_DownsampleRounds ==
    (probe.fn = "resize" /\ probe.called) =>
        /\ ~probe.raised
        /\ IF probe.width > max_width
           THEN /\ probe.out.width = max_width
                /\ 2 * Abs(probe.out.height * probe.width
                               - probe.height * max_width) <= probe.width
           ELSE /\ probe.out.width = probe.width
                /\ probe.out.height = probe.height

----------------------------------------------------------------------------
(* C12 *)

\* C12: a stop request applied to the state a stop request left behind
\* changes nothing; a running thread sees stop_event set only if a stop was
\* requested since its start (it starts with stop_event clear), and returns
\* at line 68 only then: a request made before its start, during or after
\* an earlier job, never cancels it.
C12_StopIdempotentNoLeak ==
    /\ LET once == StopConversionOn(StopConversionState)
       IN  StopConversionOn(once) = once
    /\ \A j \in JobIds :
           /\ (Running(j) /\ stop_event) => jobs[j].requested
           /\ (jobs[j].exit = "stopped" /\ Left(jobs[j])) => jobs[j].requested

\* A stop was requested during job 1, and job 2, started after it, has
\* passed a check of its emission loop without a request of its own.
C12_Witness ==
    /\ jobs[1].requested
    /\ Running(1)
    /\ jobs[2].pc = "body"
    /\ ~jobs[2].requested

----------------------------------------------------------------------------
(* C13 *)

\* C13: once the task of a band has raised, the emission loop is never
\* entered, no shape is appended, nothing is saved, the band gets no result
\* (no retry), no success dialog is shown, and the job leaves with the
\* error dialog.
C13_BandErrorAborts ==
    \A j \in JobIds :
        LET job == jobs[j]
        IN  job.failed # {} =>
                /\ job.pc \in {"pool", "finally"}
                /\ job.binary_data = <<>>
                /\ job.pixel_count = 0
                /\ job.shapes = <<>>
                /\ ~job.saved
                /\ job.document = <<>>
                /\ \A b \in job.failed : job.results[b] = <<>>
                /\ job.dialog # "success"
                /\ job.pc = "finally" =>
                       (job.exit = "raised" /\ job.dialog = "error"
                            /\ job.error = "cv2.error")

\* A job that ended with the error dialog after one band raised and
\* another band's task had finished with a result.
C13_Witness ==
    \E j \in JobIds :
        /\ jobs[j].pc = "finally"
        /\ jobs[j].failed # {}
        /\ jobs[j].dialog = "error"
        /\ \E b \in 1..Len(jobs[j].chunk_ranges) : jobs[j].results[b] # <<>>

----------------------------------------------------------------------------
(* C14 *)

\* C14: for every height >= 4 the partition yields exactly four bands,
\* [0,c), [c,2c), [2c,3c), [3c,height) with c = height // 4: the last band
\* takes the remainder, and one task per band is dispatched.
C14_ExactlyFourBands ==
    (probe.fn = "chunk_ranges" /\ probe.called /\ probe.height >= NumChunks) =>
        LET c == probe.height \div NumChunks
        IN  /\ ~probe.raised
            /\ probe.out = << <<0, c>>, <<c, 2 * c>>, <<2 * c, 3 * c>>,
                              <<3 * c, probe.height>> >>

----------------------------------------------------------------------------
(* C15 *)

\* The shapes lie inside the image, which is at most max_width wide.
InImage(job, shapes) ==
    /\ job.width <= max_width
    /\ \A i \in 1..Len(shapes) :
           /\ 0 <= shapes[i][1] /\ shapes[i][1] < job.width
           /\ 0 <= shapes[i][2] /\ shapes[i][2] < job.height

\* C15: in a run that is not cancelled the shapes appended are, in row-major
\* order, the coordinates (x, y) of the pixels visited so far whose value in
\* the merged mask is 0, one shape each and none for another pixel (checked
\* at the start of every row and after the last pixel), all with
\* 0 <= x < width <= 1000 and 0 <= y < height; nothing is saved before the
\* last pixel was visited, and what is saved is the shapes of all pixels.
C15_ShapesRowMajor ==
    \A j \in JobIds :
        LET job == jobs[j]
        IN  /\ ((job.pc = "check" /\ job.x = 0) \/ job.pc = "save"
                    \/ (Left(job) /\ job.exit = "saved")) =>
                   job.shapes =
                       ShapesOfFirst(job.binary_data, job.width, job.pixel_count)
            /\ (job.pc = "save" \/ (Left(job) /\ job.exit = "saved")) =>
                   InImage(job, job.shapes)
            /\ job.saved =>
                   /\ job.pc = "done" \/ job.pixel_count = job.total_pixels
                   /\ job.pc = "done" \/ job.document = job.shapes
            /\ (job.pc \in {"check", "body", "save"}) => ~job.saved

\* A run of an image wider than max_width that has saved its document,
\* with a shape in the last column and in the last row.
C15_Witness ==
    \E j \in JobIds :
        /\ jobs[j].exit = "saved"
        /\ Left(jobs[j])
        /\ jobs[j].image.width > max_width
        /\ jobs[j].width = max_width
        /\ \E i \in 1..Len(jobs[j].document) :
               jobs[j].document[i] = <<max_width - 1, jobs[j].height - 1>>
        /\ Len(jobs[j].document) < jobs[j].total_pixels

----------------------------------------------------------------------------
(* C16 *)

\* C16: if stop_event is set while the pool stage of a thread is running,
\* and stays set, the thread is in the pool stage until every task has
\* finished with its result (none is interrupted, the join is complete), then
\* returns at the first check of the emission loop: no pixel is visited, no
\* shape appended, no progress event delivered, nothing saved, and the run
\* leaves by the return of line 68 without a success or an error dialog.
C16_StopDuringPool ==
    \A j \in JobIds :
        LET job == jobs[j]
        IN  (job.set_in_pool /\ stop_event) =>
                /\ job.pc \in {"pool", "check", "report", "finally"}
                /\ job.pc # "pool" =>
                       /\ \A b \in 1..Len(job.chunk_ranges) : job.results[b] # <<>>
                       /\ Len(job.binary_data) = job.height
                /\ job.pixel_count = 0
                /\ job.shapes = <<>>
                /\ job.events = <<>>
                /\ ~job.saved
                /\ job.dialog = "none"
                /\ Left(job) => job.exit = "stopped"

\* A run cancelled by a stop request made in the pool stage, of an image
\* with more than four bands.
C16_Witness ==
    \E j \in JobIds :
        /\ jobs[j].set_in_pool
        /\ stop_event
        /\ jobs[j].pc = "finally"
        /\ jobs[j].exit = "stopped"
        /\ Len(jobs[j].chunk_ranges) > NumChunks

----------------------------------------------------------------------------
(* C17 *)

\* C17: a run over 100 pixels or more that reaches dwg.save() has called
\* progress_callback at most 100 times, each time at a pixel count that is a
\* multiple of total_pixels // 100.
C17_AtMostHundredEvents ==
    \A j \in JobIds :
        LET job == jobs[j]
        IN  (job.exit = "saved" /\ Left(job) /\ job.total_pixels >= ProgressTicks) =>
                /\ Len(job.events) <= ProgressTicks
                /\ \A i \in 1..Len(job.events) :
                       job.events[i][1] % ProgressStep(job.total_pixels) = 0

----------------------------------------------------------------------------
(* C18 *)

\* C18: at most one convert_image thread is running at any time: a new one
\* is never started while an earlier one has not ended.
C18_OneJobAtATime ==
    Cardinality({j \in JobIds : Running(j)}) <= 1

----------------------------------------------------------------------------
(* C19 *)

\* C19: once convert_image is past lines 108-111, the success dialog was
\* shown if and only if dwg.save() was reached; a run that returned at
\* line 68 never shows it and a run that saved always does.
C19_SuccessIffSaved ==
    \A j \in JobIds :
        LET job == jobs[j]
        IN  job.pc \in {"finally", "done"} =>
                /\ job.dialog = "success" <=> job.saved
                /\ job.exit = "stopped" => job.dialog # "success"
                /\ job.exit = "saved" => job.dialog = "success"

----------------------------------------------------------------------------
(* C20 *)

\* C20: the select button never stays disabled for good: whenever it is
\* disabled, what re-enables it is still to come, a select_file call
\* scheduled by root.after or a thread whose finally clause has not run yet
\* (or the Stop button, while it is shown and enabled).  In a state without
\* any of these no step of the program enables the button again.
C20_ButtonReenabled ==
    button = "disabled" =>
        \/ pending > 0
        \/ \E j \in JobIds : Running(j)
        \/ (packed /\ stop_button = "normal")

====
